---- MODULE Spec2Model ----
(***************************************************************************)
(* A model of asyncwhois/pywhois.py: the _PyWhoIs facade, which resolves   *)
(* an input to (domain, tld), picks the WHOIS server of the tld, runs the  *)
(* query and parses the answer, in a blocking (_from_url) and a            *)
(* non-blocking (_aio_from_url) form.                                      *)
(*                                                                         *)
(* A Python str is a sequence of one-character strings.                    *)
(***************************************************************************)
EXTENDS Integers, Sequences, FiniteSets, TLC

VARIABLES
    input,           \* per lookup: the call's arguments and its mode
    pc,              \* per lookup: the position in _from_url / _aio_from_url
    pywhois,         \* per lookup: the object made by cls()
    extract_result,  \* per lookup: local extract_result
    host,            \* per lookup: local host (the reverse-DNS answer)
    tld,             \* per lookup: local tld
    domain_and_tld,  \* per lookup: local domain_and_tld
    parser,          \* per lookup: local parser (a WhoIsParser)
    query,           \* per lookup: local query (a WhoIsQuery / AsyncWhoIsQuery)
    elapsed,         \* per lookup: time the pending call has taken
    self_query,      \* per _PyWhoIs object: attribute __query
    self_parser,     \* per _PyWhoIs object: attribute __parser
    returned,        \* per lookup: the object handed back to the caller
    error,           \* per lookup: the exception that reached the caller
    raised,          \* per lookup: the exception as the failing step raised it
    received,        \* per lookup: what the WHOIS server sent on its connection
    log              \* per lookup: the calls made and answers got, in order

vars == <<input, pc, pywhois, extract_result, host, tld, domain_and_tld, parser,
          query, elapsed, self_query, self_parser, returned, error, raised,
          received, log>>

None == "None"

---------------------------------------------------------------------------
(* Strings *)

Digit == {"0", "1", "2", "3", "4", "5", "6", "7", "8", "9"}
HexDigit == Digit \cup {"a", "b", "c", "d", "e", "f", "A", "B", "C", "D", "E", "F"}
Space == {" ", "\t", "\n", "\r", "\f"}

\* str.split(sep) for a one-character sep: the pieces between the separators,
\* empty pieces kept, so that "".split(".") is [""] and "a.".split(".") is ["a", ""].
RECURSIVE SplitFrom(_, _, _, _)
SplitFrom(s, sep, i, cur) ==
    IF i > Len(s) THEN <<cur>>
    ELSE IF s[i] = sep THEN <<cur>> \o SplitFrom(s, sep, i + 1, <<>>)
    ELSE SplitFrom(s, sep, i + 1, Append(cur, s[i]))

Split(s, sep) == SplitFrom(s, sep, 1, <<>>)

---------------------------------------------------------------------------
(* The regular expression IPV4_OR_V6.  A sub-expression is an operator     *)
(* from the set P of positions where a match may start to the set of       *)
(* positions where it may end; position p is before character p.           *)

\* one character of the class C
Lit(s, P, C) == {p + 1 : p \in {q \in P : q <= Len(s) /\ s[q] \in C}}

\* C*
RECURSIVE Star(_, _, _)
Star(s, P, C) ==
    LET N == Lit(s, P, C) IN IF N \subseteq P THEN P ELSE Star(s, P \cup N, C)

\* "." : any character but a newline
Dot(s, P) == {p + 1 : p \in {q \in P : q <= Len(s) /\ s[q] # "\n"}}

\* .+
RECURSIVE DotPlusFrom(_, _)
DotPlusFrom(s, P) ==
    LET N == Dot(s, P) IN IF N \subseteq P THEN P ELSE DotPlusFrom(s, P \cup N)
DotPlus(s, P) == DotPlusFrom(s, Dot(s, P))

\* ([0-9]|[1-9][0-9]|1[0-9]{2}|2[0-4][0-9]|25[0-5])
OctetV4(s, P) ==
    Lit(s, P, Digit)
    \cup Lit(s, Lit(s, P, Digit \ {"0"}), Digit)
    \cup Lit(s, Lit(s, Lit(s, P, {"1"}), Digit), Digit)
    \cup Lit(s, Lit(s, Lit(s, P, {"2"}), {"0", "1", "2", "3", "4"}), Digit)
    \cup Lit(s, Lit(s, Lit(s, P, {"2"}), {"5"}), {"0", "1", "2", "3", "4", "5"})

\* (25[0-5]|2[0-4]\d|1\d\d|[1-9]?\d)
OctetV6(s, P) ==
    Lit(s, Lit(s, Lit(s, P, {"2"}), {"5"}), {"0", "1", "2", "3", "4", "5"})
    \cup Lit(s, Lit(s, Lit(s, P, {"2"}), {"0", "1", "2", "3", "4"}), Digit)
    \cup Lit(s, Lit(s, Lit(s, P, {"1"}), Digit), Digit)
    \cup Lit(s, P \cup Lit(s, P, Digit \ {"0"}), Digit)

\* ((octet\.){3}octet) of the IPv4 alternative
DottedV4(s, P) ==
    LET D(Q) == Lit(s, OctetV4(s, Q), {"."}) IN OctetV4(s, D(D(D(P))))

\* (octet(\.octet){3}) inside the IPv6 alternatives
DottedV6(s, P) ==
    LET D(Q) == OctetV6(s, Lit(s, Q, {"."})) IN D(D(D(OctetV6(s, P))))

\* [0-9A-Fa-f]{1,4}
Hex(s, P) ==
    LET H(Q) == Lit(s, Q, HexDigit)
    IN H(P) \cup H(H(P)) \cup H(H(H(P))) \cup H(H(H(H(P))))

\* ([0-9A-Fa-f]{1,4}:){n}
RECURSIVE HexColon(_, _, _)
HexColon(s, P, n) ==
    IF n = 0 THEN P ELSE HexColon(s, Lit(s, Hex(s, P), {":"}), n - 1)

\* (:[0-9A-Fa-f]{1,4}){lo,hi}
RECURSIVE ColonHexN(_, _, _)
ColonHexN(s, P, n) ==
    IF n = 0 THEN P ELSE ColonHexN(s, Hex(s, Lit(s, P, {":"})), n - 1)
ColonHex(s, P, lo, hi) == UNION {ColonHexN(s, P, n) : n \in lo..hi}

\* The eight alternatives of the IPv6 part, by the number k of leading
\* "hex:" groups: 7, 6, 5..1 and the alternative that starts with ":".
V6Tail(s, P, k) ==
    IF k = 7 THEN Hex(s, P) \cup Lit(s, P, {":"})
    ELSE IF k = 6 THEN
        ColonHex(s, P, 1, 1) \cup DottedV6(s, P) \cup Lit(s, P, {":"})
    ELSE
        ColonHex(s, P, 1, 7 - k)
        \cup DottedV6(s, Lit(s, ColonHex(s, P, 0, 5 - k), {":"}))
        \cup Lit(s, P, {":"})

V6Address(s, P) ==
    UNION {V6Tail(s, HexColon(s, P, k), k) : k \in 1..7}
    \cup V6Tail(s, Lit(s, P, {":"}), 0)

\* $ : the end of the string, or just before a newline that ends it
AtEnd(s, P) ==
    \E p \in P : p = Len(s) + 1 \/ (p = Len(s) /\ s[p] = "\n")

MatchV4(s) == AtEnd(s, Star(s, DottedV4(s, Star(s, {1}, Space)), Space))

MatchV6(s) ==
    LET A == V6Address(s, Star(s, {1}, Space))
        Z == A \cup DotPlus(s, Lit(s, A, {"%"}))    \* (%.+)?
    IN AtEnd(s, Star(s, Z, Space))

\* IPV4_OR_V6.match(s) is not None
IPV4_OR_V6(s) == MatchV4(s) \/ MatchV6(s)

---------------------------------------------------------------------------
(* The values the model runs on *)

Str_example == <<"e", "x", "a", "m", "p", "l", "e">>
Str_www     == <<"w", "w", "w">>
Str_dns     == <<"d", "n", "s">>
Str_com     == <<"c", "o", "m">>
Str_co      == <<"c", "o">>
Str_uk      == <<"u", "k">>
Str_ipv4    == <<"8", ".", "8", ".", "8", ".", "8">>
Str_ipv6    == <<":", ":", "1">>
Str_dot     == <<".">>

\* sep.join(parts)
RECURSIVE Join(_, _)
Join(parts, sep) ==
    IF Len(parts) = 0 THEN <<>>
    ELSE IF Len(parts) = 1 THEN parts[1]
    ELSE parts[1] \o sep \o Join(Tail(parts), sep)

MaxLabels  == 3    \* labels of a generated host name
MaxTimeout == 2    \* the caller's timeouts are 1..MaxTimeout
MaxWait    == 3    \* how long the model watches a reverse-DNS call wait
MaxReads   == 2    \* reads of one WHOIS answer before the peer closes

Labels == {Str_example, Str_co, Str_uk}

RECURSIVE LabelSeqs(_)
LabelSeqs(n) ==
    IF n = 0 THEN {<<>>}
    ELSE LET S == LabelSeqs(n - 1)
         IN S \cup {Append(q, x) : q \in {r \in S : Len(r) = n - 1}, x \in Labels}

HostNames == {Join(q, Str_dot) : q \in LabelSeqs(MaxLabels) \ {<<>>}}
             \cup {Join(<<Str_www, Str_example, Str_com>>, Str_dot)}
IpLiterals == {Str_ipv4, Str_ipv6}
Urls == HostNames \cup IpLiterals

\* what reverse-DNS may answer
Hosts == {Join(<<Str_dns, Str_example, Str_com>>, Str_dot),
          Join(<<Str_example, Str_co, Str_uk>>, Str_dot)}

Modes == {"blocking", "aio"}
Timeouts == 1..MaxTimeout

Inputs == [mode : Modes, url : Urls, timeout : Timeouts]

---------------------------------------------------------------------------
(* The collaborators *)

\* tldextract.extract(s): the library splits a name into subdomain, domain and
\* suffix by its public-suffix list and keeps an IP address whole as the
\* domain.  The list is not modelled: an answer is any split of the name's
\* labels around one domain label.
TldExtract(s) ==
    IF s \in IpLiterals
    THEN {[subdomain |-> <<>>, domain |-> s, suffix |-> <<>>]}
    ELSE LET L == Split(s, ".")
         IN {[subdomain |-> Join(SubSeq(L, 1, i - 1), Str_dot),
              domain    |-> L[i],
              suffix    |-> Join(SubSeq(L, i + 1, Len(L)), Str_dot)] : i \in 1..Len(L)}

\* The exceptions by which the reverse-DNS call signals that it has no host
\* name: socket.gethostbyaddr raises socket.herror or socket.gaierror,
\* aiodns' gethostbyaddr raises aiodns.error.DNSError.
RdnsSignals(mode) ==
    IF mode = "blocking" THEN {"gaierror", "herror"} ELSE {"DNSError"}

\* The server directory behind WhoIsParser(tld): tld -> server and rules.
GenericRules == <<[field |-> "registrar", label |-> "Registrar"],
                  [field |-> "name_servers", label |-> "Name Server"]>>
ServerDirectory ==
    {[tld |-> Str_com, server |-> "whois.verisign-grs.com", rules |-> GenericRules],
     [tld |-> Str_uk, server |-> "whois.nic.uk",
      rules |-> <<[field |-> "registrar", label |-> "Registrar"]>>]}

NoParser == [tld |-> <<>>, server |-> None, rules |-> <<>>, parser_output |-> {}]

\* WhoIsParser(tld): the parser of the tld with its server; the set is empty
\* when the directory has no entry (UnsupportedSuffixError).
WhoIsParser(t) ==
    {[tld |-> e.tld, server |-> e.server, rules |-> e.rules, parser_output |-> {}]
        : e \in {d \in ServerDirectory : d.tld = t}}

\* What a WHOIS server sends: lines "label: value".
Chunks == {[label |-> "Registrar", value |-> "Example Inc."],
           [label |-> "Name Server", value |-> "ns1.example.com"]}

\* parser.parse(text): for every rule whose label occurs, the field with all
\* its values in order; the generic rules when no rule of the tld matches.
ValuesOf(text, label) ==
    LET S == SelectSeq(text, LAMBDA c : c.label = label)
    IN [i \in 1..Len(S) |-> S[i].value]
ParseWith(text, rules) ==
    {<<rules[i].field, ValuesOf(text, rules[i].label)>> :
        i \in {j \in 1..Len(rules) : ValuesOf(text, rules[j].label) # <<>>}}
ParseText(text, rules) ==
    IF ParseWith(text, rules) = {} THEN ParseWith(text, GenericRules)
    ELSE ParseWith(text, rules)

NoQuery == [domain |-> <<>>, server |-> None, timeout |-> 0, query_output |-> <<>>]

---------------------------------------------------------------------------
(* The pure steps of _from_url / _aio_from_url *)

\* tld = extract_result.suffix
\* if len(tld.split('.')) > 1: tld = tld.split('.')[-1]
EffectiveTld_first(suffix) ==
    LET parts == Split(suffix, ".")
    IN IF Len(parts) > 1 THEN parts[1] ELSE suffix
EffectiveTld(suffix) ==
    LET parts == Split(suffix, ".")
    IN IF Len(parts) > 1 THEN parts[Len(parts)] ELSE suffix

\* domain_and_tld = extract_result.domain + '.' + tld
DomainAndTld_sub(er, t) ==
    IF er.subdomain = <<>> THEN er.domain \o Str_dot \o t
    ELSE er.subdomain \o Str_dot \o er.domain \o Str_dot \o t
DomainAndTld(er, t) == er.domain \o Str_dot \o t

\* cls(): a new object, none of those in use
Cls_shared(used) == CHOOSE o \in DOMAIN pc : TRUE
Cls(used) == CHOOSE o \in DOMAIN pc : o \notin used

\* WhoIsQuery(domain_and_tld, parser._parser.server, timeout)
QueryArgs_default(l) ==
    [domain |-> domain_and_tld[l], server |-> parser[l].server,
     timeout |-> MaxTimeout, query_output |-> <<>>]
QueryArgs(l) ==
    [domain |-> domain_and_tld[l], server |-> parser[l].server,
     timeout |-> input[l].timeout, query_output |-> <<>>]

---------------------------------------------------------------------------
(* The state machine.  pc of a lookup:                                     *)
(*   "call"           _from_url / _aio_from_url has been called            *)
(*   "gethostbyaddr"  the reverse-DNS call is in flight                    *)
(*   "tld"            extract_result is final, WhoIsParser(tld) is next    *)
(*   "query"          the parser is there, the query is next               *)
(*   "connect"        the query is opening its connection                  *)
(*   "read"           the query is reading the answer                      *)
(*   "parse"          the query has returned, parser.parse is next         *)
(*   "done"           the object has been returned                         *)
(*   "raised"         an exception has left the call                       *)

Upd(f, l, v) == [f EXCEPT ![l] = v]
Logged(l, ops) == log' = [log EXCEPT ![l] = @ \o ops]

NoExtract == [subdomain |-> <<>>, domain |-> <<>>, suffix |-> <<>>]

InitOn(L, I) ==
    /\ input \in [L -> I]
    /\ pc = [l \in L |-> "call"]
    /\ pywhois = [l \in L |-> {}]
    /\ extract_result = [l \in L |-> NoExtract]
    /\ host = [l \in L |-> <<>>]
    /\ tld = [l \in L |-> <<>>]
    /\ domain_and_tld = [l \in L |-> <<>>]
    /\ parser = [l \in L |-> NoParser]
    /\ query = [l \in L |-> NoQuery]
    /\ elapsed = [l \in L |-> 0]
    /\ self_query = [o \in L |-> NoQuery]
    /\ self_parser = [o \in L |-> NoParser]
    /\ returned = [l \in L |-> {}]
    /\ error = [l \in L |-> None]
    /\ raised = [l \in L |-> None]
    /\ received = [l \in L |-> <<>>]
    /\ log = [l \in L |-> <<>>]

\* One lookup, any input.
Init == InitOn({1}, Inputs)

\* An exception e leaves a step: neither function has a try or an except,
\* so it leaves the call as it is and nothing after the step runs.
Fail_retry(l, e) ==
    /\ pc' = pc
    /\ raised' = Upd(raised, l, e)
    /\ error' = error
Fail(l, e) ==
    /\ pc' = Upd(pc, l, "raised")
    /\ raised' = Upd(raised, l, e)
    /\ error' = Upd(error, l, e)

\* pywhois = cls(); extract_result = tldextract.extract(url);
\* if IPV4_OR_V6.match(extract_result.domain): the reverse-DNS call is made
FromUrl(l) ==
    /\ pc[l] = "call"
    /\ \E er \in TldExtract(input[l].url) :
        /\ extract_result' = Upd(extract_result, l, er)
        /\ IF IPV4_OR_V6(er.domain)
           THEN /\ pc' = Upd(pc, l, "gethostbyaddr")
                /\ Logged(l, <<"extract", "gethostbyaddr">>)
           ELSE /\ pc' = Upd(pc, l, "tld")
                /\ Logged(l, <<"extract">>)
    /\ pywhois' = Upd(pywhois, l, {Cls(UNION {pywhois[m] : m \in DOMAIN pc})})
    /\ UNCHANGED <<input, host, tld, domain_and_tld, parser, query, elapsed,
                   self_query, self_parser, returned, error, raised, received>>

\* Time passes while the reverse-DNS call waits: the call has no timeout.
\* elapsed is the time the pending call has taken.
RdnsWait(l) ==
    /\ pc[l] = "gethostbyaddr"
    /\ elapsed[l] < MaxWait
    /\ elapsed' = Upd(elapsed, l, elapsed[l] + 1)
    /\ UNCHANGED <<input, pc, pywhois, extract_result, host, tld, domain_and_tld,
                   parser, query, self_query, self_parser, returned, error,
                   raised, received, log>>

\* host = ...; extract_result = tldextract.extract(host)
Resolved_keep(l, h) ==
    /\ host' = Upd(host, l, h)
    /\ pc' = Upd(pc, l, "tld")
    /\ Logged(l, <<"host">>)
    /\ elapsed' = Upd(elapsed, l, 0)
    /\ UNCHANGED <<input, pywhois, extract_result, tld, domain_and_tld, parser,
                   query, self_query, self_parser, returned, error,
                   raised, received>>
Resolved(l, h) ==
    /\ host' = Upd(host, l, h)
    /\ \E er \in TldExtract(h) : extract_result' = Upd(extract_result, l, er)
    /\ pc' = Upd(pc, l, "tld")
    /\ Logged(l, <<"host", "extract">>)
    /\ elapsed' = Upd(elapsed, l, 0)
    /\ UNCHANGED <<input, pywhois, tld, domain_and_tld, parser, query,
                   self_query, self_parser, returned, error, raised, received>>

\* The reverse-DNS call raises sig; caught says whether the except clause
\* of the function names it.
Unresolved(l, sig, caught) ==
    /\ Fail(l, IF caught THEN "WhoIsQueryError" ELSE sig)
    /\ Logged(l, <<sig>>)
    /\ elapsed' = Upd(elapsed, l, 0)
    /\ UNCHANGED <<input, pywhois, extract_result, host, tld, domain_and_tld,
                   parser, query, self_query, self_parser, returned,
                   received>>

\* _get_hostname_from_ip: except socket.gaierror
GetHostnameFromIp(l) ==
    /\ pc[l] = "gethostbyaddr"
    /\ input[l].mode = "blocking"
    /\ \/ \E h \in Hosts : Resolved(l, h)
       \/ \E sig \in RdnsSignals("blocking") : Unresolved(l, sig, sig = "gaierror")

\* _aio_get_hostname_from_ip: except aiodns.error.DNSError
AioGetHostnameFromIp(l) ==
    /\ pc[l] = "gethostbyaddr"
    /\ input[l].mode = "aio"
    /\ \/ \E h \in Hosts : Resolved(l, h)
       \/ \E sig \in RdnsSignals("aio") : Unresolved(l, sig, sig = "DNSError")

\* tld = ...; domain_and_tld = ...; parser = WhoIsParser(tld)
ParserInit_default(l) ==
    /\ pc[l] = "tld"
    /\ LET t == EffectiveTld(extract_result[l].suffix)
       IN /\ tld' = Upd(tld, l, t)
          /\ domain_and_tld' = Upd(domain_and_tld, l, DomainAndTld(extract_result[l], t))
          /\ \E p \in IF WhoIsParser(t) = {}
                       THEN {[NoParser EXCEPT !.tld = t, !.server = "whois.iana.org"]}
                       ELSE WhoIsParser(t) : parser' = Upd(parser, l, p)
    /\ pc' = Upd(pc, l, "query")
    /\ Logged(l, <<"WhoIsParser">>)
    /\ UNCHANGED <<input, pywhois, extract_result, host, query, elapsed,
                   self_query, self_parser, returned, received, error, raised>>
ParserInit(l) ==
    /\ pc[l] = "tld"
    /\ LET t == EffectiveTld(extract_result[l].suffix)
       IN /\ tld' = Upd(tld, l, t)
          /\ domain_and_tld' = Upd(domain_and_tld, l, DomainAndTld(extract_result[l], t))
          /\ IF WhoIsParser(t) = {}
             THEN /\ Fail(l, "UnsupportedSuffixError")
                  /\ Logged(l, <<"WhoIsParser", "UnsupportedSuffixError">>)
                  /\ UNCHANGED parser
             ELSE /\ \E p \in WhoIsParser(t) : parser' = Upd(parser, l, p)
                  /\ pc' = Upd(pc, l, "query")
                  /\ Logged(l, <<"WhoIsParser">>)
                  /\ UNCHANGED <<error, raised>>
    /\ UNCHANGED <<input, pywhois, extract_result, host, query, elapsed,
                   self_query, self_parser, returned, received>>

\* query = WhoIsQuery(...) / await AsyncWhoIsQuery.create(...): the call
QueryCall(l) ==
    /\ pc[l] = "query"
    /\ query' = Upd(query, l, QueryArgs(l))
    /\ elapsed' = Upd(elapsed, l, 0)
    /\ pc' = Upd(pc, l, "connect")
    /\ Logged(l, <<"WhoIsQuery">>)
    /\ UNCHANGED <<input, pywhois, extract_result, host, tld, domain_and_tld,
                   parser, self_query, self_parser, returned, error, raised,
                   received>>

InQuery(l) == pc[l] \in {"connect", "read"}

\* The connection to query.server opens.
QueryConnect(l) ==
    /\ pc[l] = "connect"
    /\ elapsed[l] < query[l].timeout
    /\ pc' = Upd(pc, l, "read")
    /\ Logged(l, <<"connect">>)
    /\ UNCHANGED <<input, pywhois, extract_result, host, tld, domain_and_tld,
                   parser, query, elapsed, self_query, self_parser, returned,
                   error, raised, received>>

\* One read returns what the server has sent.
QueryRead(l) ==
    /\ pc[l] = "read"
    /\ elapsed[l] < query[l].timeout
    /\ Len(received[l]) < MaxReads
    /\ \E c \in Chunks :
        /\ received' = Upd(received, l, Append(received[l], c))
        /\ query' = [query EXCEPT ![l].query_output = Append(@, c)]
    /\ Logged(l, <<"read">>)
    /\ UNCHANGED <<input, pc, pywhois, extract_result, host, tld, domain_and_tld,
                   parser, elapsed, self_query, self_parser, returned, error,
                   raised>>

\* The peer closes the stream: the query returns with its raw text.
QueryEof(l) ==
    /\ pc[l] = "read"
    /\ elapsed[l] < query[l].timeout
    /\ pc' = Upd(pc, l, "parse")
    /\ Logged(l, <<"eof">>)
    /\ UNCHANGED <<input, pywhois, extract_result, host, tld, domain_and_tld,
                   parser, query, elapsed, self_query, self_parser, returned,
                   error, raised, received>>

\* Time passes in the query step, up to the timeout.
QueryTick(l) ==
    /\ InQuery(l)
    /\ elapsed[l] < query[l].timeout
    /\ elapsed' = Upd(elapsed, l, elapsed[l] + 1)
    /\ UNCHANGED <<input, pc, pywhois, extract_result, host, tld, domain_and_tld,
                   parser, query, self_query, self_parser, returned, error,
                   raised, received, log>>

\* The timeout of the query expires.
QueryTimeout(l) ==
    /\ InQuery(l)
    /\ elapsed[l] >= query[l].timeout
    /\ Fail(l, "TimeoutError")
    /\ Logged(l, <<"TimeoutError">>)
    /\ UNCHANGED <<input, pywhois, extract_result, host, tld, domain_and_tld,
                   parser, query, elapsed, self_query, self_parser, returned,
                   received>>

\* The connection is refused or reset, or an I/O error occurs.
QueryError(l) ==
    /\ InQuery(l)
    /\ elapsed[l] < query[l].timeout
    /\ Fail(l, "ConnectionError")
    /\ Logged(l, <<"ConnectionError">>)
    /\ UNCHANGED <<input, pywhois, extract_result, host, tld, domain_and_tld,
                   parser, query, elapsed, self_query, self_parser, returned,
                   received>>

\* parser.parse(query.query_output); pywhois.__query = query;
\* pywhois.__parser = parser; return pywhois
ParseAndReturn(l) ==
    /\ LET p == [parser[l] EXCEPT
                    !.parser_output = ParseText(query[l].query_output, parser[l].rules)]
       IN /\ parser' = Upd(parser, l, p)
          /\ \E o \in pywhois[l] :
                /\ self_query' = Upd(self_query, o, query[l])
                /\ self_parser' = Upd(self_parser, o, p)
    /\ returned' = Upd(returned, l, pywhois[l])
    /\ pc' = Upd(pc, l, "done")
    /\ Logged(l, <<"parse">>)
    /\ UNCHANGED <<input, pywhois, extract_result, host, tld, domain_and_tld,
                   query, elapsed, error, raised, received>>

\* The parse comes after the query has returned.
Parse_early(l) == pc[l] \in {"read", "parse"} /\ ParseAndReturn(l)
Parse(l) == pc[l] = "parse" /\ ParseAndReturn(l)

Next ==
    \/ \E l \in DOMAIN pc : FromUrl(l)
    \/ \E l \in DOMAIN pc : RdnsWait(l)
    \/ \E l \in DOMAIN pc : GetHostnameFromIp(l)
    \/ \E l \in DOMAIN pc : AioGetHostnameFromIp(l)
    \/ \E l \in DOMAIN pc : ParserInit(l)
    \/ \E l \in DOMAIN pc : QueryCall(l)
    \/ \E l \in DOMAIN pc : QueryConnect(l)
    \/ \E l \in DOMAIN pc : QueryRead(l)
    \/ \E l \in DOMAIN pc : QueryEof(l)
    \/ \E l \in DOMAIN pc : QueryTick(l)
    \/ \E l \in DOMAIN pc : QueryTimeout(l)
    \/ \E l \in DOMAIN pc : QueryError(l)
    \/ \E l \in DOMAIN pc : Parse(l)

Spec == Init /\ [][Next]_vars

\* The same lookup under the guarantees the query step rests on: time passes
\* while a query is under way, and the query enforces its timeout.
FairSpec ==
    Spec /\ \A l \in {1} :
        WF_vars(QueryTick(l)) /\ WF_vars(QueryTimeout(l)) /\ WF_vars(Parse(l))

\* Two lookups at once, in either mode, each of an IP address or a name.
ConcInputs ==
    [mode : Modes,
     url : {Str_ipv4, Join(<<Str_example, Str_com>>, Str_dot)},
     timeout : {1}]
ConcInit == InitOn({1, 2}, ConcInputs)
ConcSpec == ConcInit /\ [][Next]_vars

---------------------------------------------------------------------------
(* Properties *)

Lookups == DOMAIN pc

Has(l, op) == \E i \in 1..Len(log[l]) : log[l][i] = op
Count(l, op) == Cardinality({i \in 1..Len(log[l]) : log[l][i] = op})
Before(l, a, b) ==
    \E i \in 1..Len(log[l]) :
        /\ log[l][i] = a
        /\ \A j \in 1..i : log[l][j] # b

HasDot(s) == \E i \in 1..Len(s) : s[i] = "."
EndsWith(s, t) ==
    Len(t) <= Len(s) /\ SubSeq(s, Len(s) - Len(t) + 1, Len(s)) = t

RdnsFailures == {"gaierror", "herror", "DNSError"}
Failures == RdnsFailures \cup {"UnsupportedSuffixError", "TimeoutError", "ConnectionError"}
Calls == {"gethostbyaddr", "WhoIsParser", "WhoIsQuery", "connect", "parse"}
Ended(l) == pc[l] \in {"done", "raised"}

\* The pipeline stage an entry of the log belongs to.
Stage(op) ==
    CASE op \in {"extract", "gethostbyaddr", "host"} \cup RdnsFailures -> 1
      [] op \in {"WhoIsParser", "UnsupportedSuffixError"} -> 2
      [] op \in {"WhoIsQuery", "connect", "read", "eof", "TimeoutError",
                 "ConnectionError"} -> 3
      [] op = "parse" -> 4

\* C1: within one lookup the steps run in the order resolve, directory
\* lookup, query, parse: no entry of a later stage precedes one of an earlier
\* stage; the directory lookup starts only after a reverse-DNS call, if one
\* was made, has answered with a host and that host has been extracted; the
\* query starts only after the directory lookup has returned the server,
\* which it is given; the parse starts only after the query has returned.
StepsInOrder ==
    \A l \in Lookups :
        /\ \A i, j \in 1..Len(log[l]) : i < j => Stage(log[l][i]) <= Stage(log[l][j])
        /\ Has(l, "WhoIsParser") /\ Has(l, "gethostbyaddr")
            => /\ Before(l, "host", "WhoIsParser")
               /\ Count(l, "extract") = 2
        /\ Has(l, "WhoIsQuery")
            => /\ Before(l, "WhoIsParser", "WhoIsQuery")
               /\ parser[l].server # None
               /\ query[l].server = parser[l].server
        /\ Has(l, "parse") => Before(l, "eof", "parse")

FullPipelineRan ==
    \E l \in Lookups :
        pc[l] = "done" /\ Has(l, "gethostbyaddr") /\ Has(l, "read")

\* C2: when the extracted suffix has more than one label, the effective
\* suffix is its last label: the suffix ends with "." and the effective
\* suffix; the effective suffix never contains a dot; it is the key of the
\* directory lookup and the end of the query name.
EffectiveSuffixIsLastLabel ==
    \A l \in Lookups :
        Has(l, "WhoIsParser") =>
            /\ ~HasDot(tld[l])
            /\ HasDot(extract_result[l].suffix)
                => EndsWith(extract_result[l].suffix, Str_dot \o tld[l])
            /\ pc[l] # "raised" => parser[l].tld = tld[l]
            /\ Has(l, "WhoIsQuery") => EndsWith(query[l].domain, Str_dot \o tld[l])

CoUkBecomesUk ==
    \E l \in Lookups :
        /\ Has(l, "WhoIsQuery")
        /\ extract_result[l].suffix = Join(<<Str_co, Str_uk>>, Str_dot)
        /\ extract_result[l].domain = Str_example
        /\ tld[l] = Str_uk
        /\ parser[l].tld = Str_uk

\* C3: the name given to the query is the extracted domain, one ".", and the
\* effective suffix, whatever the subdomain; the directory lookup gets that
\* same effective suffix; a suffix of one label is the effective suffix;
\* "www.example.com" gives the query name "example.com" and the key "com".
QueryNameIsDomainDotSuffix ==
    \A l \in Lookups :
        /\ Has(l, "WhoIsParser") /\ ~HasDot(extract_result[l].suffix)
            => tld[l] = extract_result[l].suffix
        /\ Has(l, "WhoIsQuery") =>
            /\ query[l].domain = extract_result[l].domain \o <<".">> \o tld[l]
            /\ parser[l].tld = tld[l]
            /\ extract_result[l] =
                 [subdomain |-> Str_www, domain |-> Str_example, suffix |-> Str_com]
                => /\ query[l].domain = Join(<<Str_example, Str_com>>, Str_dot)
                   /\ parser[l].tld = Str_com

WwwExampleComQueried ==
    \E l \in Lookups :
        /\ input[l].url = Join(<<Str_www, Str_example, Str_com>>, Str_dot)
        /\ extract_result[l].subdomain = Str_www
        /\ Has(l, "WhoIsQuery")
        /\ query[l].domain = Join(<<Str_example, Str_com>>, Str_dot)

\* C4: for an input that is an IP literal whose reverse-DNS call answers with
\* a host, the effective suffix and the query name come from an extraction of
\* that host, not from the literal; for an input that is not an IP literal no
\* reverse-DNS call is made and the one extraction of the input is used.
IpResolvedThroughHost ==
    \A l \in Lookups :
        /\ input[l].url \in IpLiterals /\ pc[l] # "call" => Has(l, "gethostbyaddr")
        /\ input[l].url \in IpLiterals /\ Has(l, "WhoIsParser") =>
            /\ Has(l, "host")
            /\ extract_result[l] \in TldExtract(host[l])
            /\ extract_result[l].domain # input[l].url
            /\ domain_and_tld[l] = extract_result[l].domain \o Str_dot \o tld[l]
            /\ EndsWith(host[l], tld[l])
        /\ input[l].url \notin IpLiterals /\ pc[l] # "call" =>
            /\ ~Has(l, "gethostbyaddr")
            /\ Count(l, "extract") = 1
            /\ extract_result[l] \in TldExtract(input[l].url)

IpQueriedByHostName ==
    \E l \in Lookups :
        /\ input[l].url = Str_ipv4
        /\ host[l] = Join(<<Str_example, Str_co, Str_uk>>, Str_dot)
        /\ Has(l, "WhoIsQuery")
        /\ query[l].domain = Join(<<Str_example, Str_uk>>, Str_dot)

\* C5: in either mode, when the reverse-DNS call signals that it has no host
\* name, the lookup fails with WhoIsQueryError and runs no directory lookup,
\* no query and no parse.
NoHostIsResolutionError ==
    \A l \in Lookups :
        (\E sig \in RdnsFailures : Has(l, sig)) =>
            /\ pc[l] = "raised"
            /\ error[l] = "WhoIsQueryError"
            /\ ~Has(l, "WhoIsParser") /\ ~Has(l, "WhoIsQuery") /\ ~Has(l, "parse")

\* C6: a failure of a step ends the call: the failure is the last thing that
\* happened, no call was made twice, the exception the step raised is the one
\* the caller gets, and no object, raw text or record is handed back.
FailureIsTerminal ==
    \A l \in Lookups :
        /\ pc[l] = "raised" => \E e \in Failures : Has(l, e)
        /\ (\E e \in Failures : Has(l, e)) =>
            /\ pc[l] = "raised"
            /\ log[l][Len(log[l])] \in Failures
            /\ \A i \in 1..(Len(log[l]) - 1) : log[l][i] \notin Failures
            /\ \A c \in Calls : Count(l, c) <= 1
            /\ error[l] # None
            /\ error[l] = raised[l]
            /\ returned[l] = {}
            /\ \A o \in pywhois[l] : self_query[o] = NoQuery /\ self_parser[o] = NoParser

TimedOutMidRead ==
    \E l \in Lookups :
        pc[l] = "raised" /\ error[l] = "TimeoutError" /\ received[l] # <<>>

Steps(l) == SelectSeq(log[l], LAMBDA e : e \notin RdnsFailures)
Result(l) ==
    {<<self_query[o].query_output, self_parser[o].parser_output>> : o \in returned[l]}
SameAnswers(l, m) ==
    /\ extract_result[l] = extract_result[m]
    /\ host[l] = host[m]
    /\ (\E sig \in RdnsFailures : Has(l, sig)) = (\E sig \in RdnsFailures : Has(m, sig))
    /\ received[l] = received[m]
    /\ SelectSeq(log[l], LAMBDA e : Stage(e) = 3) = SelectSeq(log[m], LAMBDA e : Stage(e) = 3)

\* C7: a blocking and a non-blocking lookup of the same input with the same
\* timeout and the same answers of the collaborators make the same calls in
\* the same order and end alike: the same raw text and record, or the same
\* error.
ModesAgree ==
    \A l, m \in Lookups :
        /\ input[l].mode = "blocking" /\ input[m].mode = "aio"
        /\ input[l].url = input[m].url /\ input[l].timeout = input[m].timeout
        /\ Ended(l) /\ Ended(m)
        /\ SameAnswers(l, m)
        => /\ Steps(l) = Steps(m)
           /\ error[l] = error[m]
           /\ Result(l) = Result(m)

OwnError(l) ==
    LET e == log[l][Len(log[l])]
    IN IF e \in {"gaierror", "DNSError"} THEN "WhoIsQueryError" ELSE e
OwnRules(l) ==
    UNION {{d.rules} :
        d \in {x \in ServerDirectory :
                  \/ extract_result[l].suffix = x.tld
                  \/ EndsWith(extract_result[l].suffix, Str_dot \o x.tld)}}

\* C8: lookups that run at the same time do not affect one another: each has
\* an object of its own, and a non-blocking lookup returns the raw text its
\* own connection received, the record parsed from that text by the rules of
\* its own suffix, and the query name of its own input, or raises the error
\* of its own failure.
LookupsIndependent ==
    /\ \A l, m \in Lookups : l # m => pywhois[l] \cap pywhois[m] = {}
    /\ \A l \in Lookups :
        input[l].mode = "aio" =>
            /\ pc[l] = "done" =>
                /\ error[l] = None
                /\ returned[l] = pywhois[l]
                /\ \A o \in returned[l] :
                    /\ self_query[o].query_output = received[l]
                    /\ self_query[o].domain = domain_and_tld[l]
                    /\ self_query[o].timeout = input[l].timeout
                    /\ \E r \in OwnRules(l) :
                        self_parser[o].parser_output = ParseText(received[l], r)
            /\ pc[l] = "raised" => error[l] = OwnError(l) /\ returned[l] = {}

OneDoneWhileOtherReads ==
    \E l, m \in Lookups :
        /\ l # m
        /\ input[l].mode = "aio" /\ input[m].mode = "aio"
        /\ pc[l] = "done" /\ pc[m] = "read"
        /\ received[m] # <<>> /\ received[l] # <<>>
        /\ received[l] # received[m]

\* C9: when the directory has no entry for the effective suffix, the lookup
\* fails with UnsupportedSuffixError and no query is made: no connection is
\* opened.
UnsupportedSuffixFailsBeforeQuery ==
    \A l \in Lookups :
        Has(l, "WhoIsParser") /\ tld[l] \notin {d.tld : d \in ServerDirectory} =>
            /\ pc[l] = "raised"
            /\ error[l] = "UnsupportedSuffixError"
            /\ ~Has(l, "WhoIsQuery") /\ ~Has(l, "connect")
            /\ query[l] = NoQuery

UnsupportedSuffixRaised ==
    \E l \in Lookups :
        /\ error[l] = "UnsupportedSuffixError"
        /\ tld[l] = Str_co
        /\ extract_result[l].domain = Str_example

\* C10: the timeout of the call is given to the query, unchanged, and to no
\* other step: a TimeoutError comes only from a query that has run for the
\* timeout, a reverse-DNS call goes on waiting when the timeout has passed,
\* and a lookup whose query has started ends.
TimeoutBoundsQueryOnly ==
    /\ [](\A l \in Lookups :
            /\ Has(l, "WhoIsQuery") => query[l].timeout = input[l].timeout
            /\ ~Has(l, "WhoIsQuery") => query[l] = NoQuery
            /\ error[l] = "TimeoutError"
                => Has(l, "WhoIsQuery") /\ elapsed[l] >= input[l].timeout
            /\ pc[l] = "gethostbyaddr" => error[l] = None)
    /\ \A l \in {1} : InQuery(l) ~> Ended(l)

OutwaitedTimeoutInRdns ==
    \E l \in Lookups :
        /\ pc[l] = "gethostbyaddr"
        /\ elapsed[l] > input[l].timeout
        /\ error[l] = None

====
